---- MODULE Spec2Model ----
(***************************************************************************)
(* The plan-execution engine of the data-cleaning agent                    *)
(* (src/data_cleaning/execution_agent): ExecutionState, the sandboxed      *)
(* executor execute_cleaning_code, the impact evaluator evaluate_step and  *)
(* the retry/acceptance loop of run_execution_agent.                       *)
(* load_plan_text and the sanitisation of generate_code_for_step are       *)
(* modelled on the characters of their texts (SpecPlan, SpecSanitize).     *)
(*                                                                         *)
(* A dataset (pandas DataFrame) is abstracted to its number of rows, its   *)
(* number of columns and its number of missing cells. The modelled         *)
(* datasets keep their missing cells in the first row, so that the row     *)
(* operations below have a definite effect on the count.                   *)
(* A percentage is held in hundredths: 1000 stands for 10.0.               *)
(* Python's None is the empty tuple << >>; a text is a one-element tuple.  *)
(* The two fixed error texts of the executor are written without their     *)
(* backquotes.                                                             *)
(***************************************************************************)
EXTENDS Integers, Sequences, FiniteSets, TLC

\* ------------------------------------------------------------- bounds ----
\* Longest plan of a run.
MaxPlanLen == 2
\* Largest of the small row counts evaluate_step is applied to on its own.
MaxEvalRows == 40
\* Most lines of a text that is parsed: a plan file, a reply.
MaxLines == 3

\* ---------------------------------------------------------- constants ----
MAX_RETRIES == 5
\* The acceptance threshold of the row-drop percentage, in hundredths.
ROW_DROP_LIMIT == 1000

None == << >>
\* The local `code` of run_execution_agent before its first assignment: a
\* string that no reply equals.
NoCode == "<unbound>"
Text(s) == << s >>

\* -------------------------------------------------------------- texts ----
\* A Python str whose characters are looked at is the tuple of its
\* characters; "BQ" stands for the backquote character.
IsSpace(c) == c \in {" ", "\t", "\n", "\r"}

RECURSIVE lstrip(_)
lstrip(s) == IF s # << >> /\ IsSpace(Head(s)) THEN lstrip(Tail(s)) ELSE s

RECURSIVE rstrip(_)
rstrip(s) ==
    IF s # << >> /\ IsSpace(s[Len(s)]) THEN rstrip(SubSeq(s, 1, Len(s) - 1))
    ELSE s

\* str.strip()
strip(s) == rstrip(lstrip(s))

\* str.startswith(p)
startswith(s, p) == Len(s) >= Len(p) /\ SubSeq(s, 1, Len(p)) = p

\* str.split(sep) for a non-empty separator: the pieces between the
\* occurrences of sep, from the left.
RECURSIVE split(_, _)
split(s, sep) ==
    LET at == {i \in 1..(Len(s) - Len(sep) + 1) :
                  SubSeq(s, i, i + Len(sep) - 1) = sep}
    IN  IF at = {} THEN << s >>
        ELSE LET i == CHOOSE j \in at : \A k \in at : j <= k
             IN  << SubSeq(s, 1, i - 1) >>
                 \o split(SubSeq(s, i + Len(sep), Len(s)), sep)

\* str.splitlines() of a text whose only line boundary is "\n": no empty
\* last line after a final boundary, no line at all for the empty text.
splitlines(s) ==
    LET p == split(s, << "\n" >>)
    IN  IF p[Len(p)] = << >> THEN SubSeq(p, 1, Len(p) - 1) ELSE p

\* str.lower(), for the letters of the texts looked at.
UpperCase == <<"A", "B", "C", "D", "E", "F", "G", "H", "I", "J", "K", "L", "M",
               "N", "O", "P", "Q", "R", "S", "T", "U", "V", "W", "X", "Y", "Z">>
LowerCase == <<"a", "b", "c", "d", "e", "f", "g", "h", "i", "j", "k", "l", "m",
               "n", "o", "p", "q", "r", "s", "t", "u", "v", "w", "x", "y", "z">>
lower(s) ==
    [i \in 1..Len(s) |->
        IF \E k \in 1..26 : UpperCase[k] = s[i]
        THEN LowerCase[CHOOSE k \in 1..26 : UpperCase[k] = s[i]]
        ELSE s[i]]

\* sep.join(lines)
RECURSIVE join(_, _)
join(sep, lines) ==
    IF lines = << >> THEN << >>
    ELSE IF Len(lines) = 1 THEN lines[1]
    ELSE lines[1] \o sep \o join(sep, Tail(lines))

\* ----------------------------------------------------------- datasets ----
Frame(r, c, n) == [rows |-> r, cols |-> c, nulls |-> n]
\* A value that is no dataset (an unset local, a missing dictionary key).
NoFrame == [rows |-> -1, cols |-> -1, nulls |-> -1]
\* The datasets read from dataset_path.
InitFrames == {Frame(0, 3, 0), Frame(100, 3, 2), Frame(20001, 3, 2)}

\* The plan of n steps, as load_plan_text returns it.
StepText(i) == <<"Step", i>>
PlanOf(n) == [i \in 1..n |-> StepText(i)]

Max(a, b) == IF a >= b THEN a ELSE b
Min(a, b) == IF a <= b THEN a ELSE b

\* ------------------------------------------------------ evaluate_step ----
\* round(n / m, 0) of Python for m > 0: to the nearest integer, an exact tie
\* to the even neighbour.
RoundHalfEven(n, m) ==
    LET q == n \div m
        r == n % m
    IN  IF 2 * r < m THEN q
        ELSE IF 2 * r > m THEN q + 1
        ELSE IF q % 2 = 0 THEN q ELSE q + 1

\* The percentage cut off after two decimals instead of rounded.
RowDropPct_Truncated(rb, ra) == ((rb - ra) * 10000) \div Max(rb, 1)

\* round((rb - ra) / max(rb, 1) * 100, 2), in hundredths.
RowDropPct(rb, ra) == RoundHalfEven((rb - ra) * 10000, Max(rb, 1))

evaluate_step(before, after) ==
    [rows_before    |-> before.rows,
     rows_after     |-> after.rows,
     rows_dropped   |-> before.rows - after.rows,
     row_drop_pct   |-> RowDropPct(before.rows, after.rows),
     nulls_before   |-> before.nulls,
     nulls_after    |-> after.nulls,
     nulls_delta    |-> after.nulls - before.nulls,
     columns_before |-> before.cols,
     columns_after  |-> after.cols]

\* -------------------------------------------------------------- state ----
VARIABLES
    text,           \* the content of the plan file, None when not looked at
    raw,            \* response.choices[0].message.content, None when not looked at
    pd_keep,        \* what the attribute keep of the pandas module refers to
    files,          \* the files written by evaluated code
    api_key,        \* os.getenv("GROQ_API_KEY") is set
    replies,        \* the code strings the collaborator replies with in this run
    df,             \* state.df
    plan,           \* state.plan
    step_index,     \* state.step_index
    attempt,        \* state.attempt
    history,        \* state.history
    step_text,      \* locals of run_execution_agent
    step_number,
    success,
    last_error,
    before_df,
    code,
    result,
    after_df,
    metrics,
    feedback,       \* the feedback argument of the latest generate_code_for_step call
    saved,          \* the dataset written to cleaned_dataset.csv, NoFrame before
    pc,             \* the statement run_execution_agent is at
    step_begin_df,  \* history variable: state.df when the current step began
    attempts_started \* history variable: iterations of the attempt loop entered

vars == <<text, raw, pd_keep, files, api_key, replies, df, plan, step_index, attempt, history, step_text,
          step_number, success, last_error, before_df, code, result, after_df,
          metrics, feedback, saved, pc, step_begin_df, attempts_started>>

\* What a run is given, and what the controller itself never assigns.
inputs == <<text, raw, api_key, replies, plan>>
env == <<inputs, pd_keep, files>>
locals == <<step_text, step_number, success, last_error, before_df, code,
            result, after_df, metrics, feedback>>

\* ---------------------------------------------- execute_cleaning_code ----
\* The code strings the collaborator can reply with.
Codes == {"",
          "x = 1",
          "df = df.copy()",
          "df = df.fillna(0)",
          "df = df.head(95)",
          "df = df.head(85)",
          "df = df.head(18000)",
          "df = pd.DataFrame({'a': [1, 2]})",
          "df = df.undefined",
          "del df",
          "df = 1"}

\* The globals dictionary handed to exec, as far as the executor reads it:
\* whether the key "df" is present, whether its value is a DataFrame, and
\* the DataFrame.
Globals(d) ==
    [has_df |-> TRUE, is_frame |-> TRUE, df |-> d,
     names |-> {"__builtins__", "pd", "df"}, builtins |-> {}]

\* What evaluated code can reach besides its globals: the objects behind the
\* pandas module it is given, and the file system. pd.keep is unset, or it
\* refers to the object state.df refers to ("state"), to the object the
\* executor returned as df in the attempt in hand ("candidate"), or to a
\* DataFrame nothing else refers to ("other"); a candidate that was not
\* committed is such a DataFrame by the time the next code is evaluated.
Heap ==
    [keep |-> IF pd_keep = "candidate" THEN "other" ELSE pd_keep,
     state_df |-> df,
     files |-> files]

\* DataFrame.drop(index[:n], inplace=True) on the object itself.
DropInPlace(f, n) == [f EXCEPT !.rows = Max(f.rows - n, 0)]

\* exec(code, allowed_globals): the globals afterwards and the exception
\* raised, if any.
Exec(c, g) ==
    LET d == g.df
        h == Heap
        ok(f) == [raised |-> FALSE, error |-> None,
                  globals |-> [g EXCEPT !.df = f], heap |-> h]
        undefined == Text("'DataFrame' object has no attribute 'undefined'")
    IN  CASE c = "" -> ok(d)
          [] c = "x = 1" -> ok(d)
          [] c = "df = df.copy()" -> ok(d)
          [] c = "df = df.fillna(0)" -> ok([d EXCEPT !.nulls = 0])
          [] c = "df = df.head(95)" ->
                ok([d EXCEPT !.rows = Min(d.rows, 95)])
          [] c = "df = df.head(85)" ->
                ok([d EXCEPT !.rows = Min(d.rows, 85)])
          [] c = "df = df.head(18000)" ->
                ok([d EXCEPT !.rows = Min(d.rows, 18000)])
          [] c = "df = pd.DataFrame({'a': [1, 2]})" -> ok(Frame(2, 1, 0))
          [] c = "df = df.undefined" ->
                [raised |-> TRUE, error |-> undefined, globals |-> g, heap |-> h]
          [] c = "del df" ->
                [raised |-> FALSE, error |-> None,
                 globals |-> [g EXCEPT !.has_df = FALSE, !.is_frame = FALSE,
                                       !.df = NoFrame],
                 heap |-> h]
          [] c = "df = 1" ->
                [raised |-> FALSE, error |-> None,
                 globals |-> [g EXCEPT !.is_frame = FALSE, !.df = NoFrame],
                 heap |-> h]
          [] c = "df.drop(df.index[:50], inplace=True)\ndf = df.undefined" ->
                [raised |-> TRUE, error |-> undefined,
                 globals |-> [g EXCEPT !.df = DropInPlace(d, 50)], heap |-> h]
          [] c = "pd.keep = df" ->
                [raised |-> FALSE, error |-> None, globals |-> g,
                 heap |-> [h EXCEPT !.keep = "candidate"]]
          [] c = "pd.keep.drop(pd.keep.index[:50], inplace=True)\ndf = df.undefined" ->
                IF h.keep = "unset"
                THEN [raised |-> TRUE,
                      error |-> Text("module 'pandas' has no attribute 'keep'"),
                      globals |-> g, heap |-> h]
                ELSE [raised |-> TRUE, error |-> undefined, globals |-> g,
                      heap |-> IF h.keep = "state"
                               THEN [h EXCEPT !.state_df = DropInPlace(@, 50)]
                               ELSE h]
          [] c = "df.to_csv('out.csv')" ->
                [raised |-> FALSE, error |-> None, globals |-> g,
                 heap |-> [h EXCEPT !.files = @ \cup {"out.csv"}]]

ErrorResult(e) == [status |-> "error", error |-> e, df |-> NoFrame, noop |-> FALSE]
SuccessResult(f, n) == [status |-> "success", error |-> None, df |-> f, noop |-> n]
NoResult == [status |-> "none", error |-> None, df |-> NoFrame, noop |-> FALSE]

\* An executor that reports an unchanged dataset as an error.
execute_cleaning_code_NoopIsError(c, d) ==
    LET df_before == d
        x == Exec(c, Globals(d))
    IN  IF x.raised THEN ErrorResult(x.error)
        ELSE IF ~x.globals.has_df
             THEN ErrorResult(Text("LLM code did not define df"))
        ELSE IF ~x.globals.is_frame
             THEN ErrorResult(Text("df is not a pandas DataFrame after execution"))
        ELSE IF x.globals.df = df_before
             THEN ErrorResult(Text("no change"))
        ELSE SuccessResult(x.globals.df, FALSE)

\* The code runs on a copy of d; an exception of the code is caught by
\* "except Exception" and becomes an error result carrying str(e).
execute_cleaning_code(c, d) ==
    LET df_before == d
        x == Exec(c, Globals(d))
    IN  IF x.raised THEN ErrorResult(x.error)
        ELSE IF ~x.globals.has_df
             THEN ErrorResult(Text("LLM code did not define df"))
        ELSE IF ~x.globals.is_frame
             THEN ErrorResult(Text("df is not a pandas DataFrame after execution"))
        ELSE IF x.globals.df = df_before
             THEN SuccessResult(x.globals.df, TRUE)
        ELSE SuccessResult(x.globals.df, FALSE)

\* The heap after the call: exec is given a copy of the argument, so the
\* code reaches the object state.df refers to through pd.keep only.
evaluated(c, d) == Exec(c, Globals(d)).heap

\* Within one run the collaborator answers with one or two different code
\* strings, in any order and any number of times.
ReplySets == {{a, b} : a \in Codes, b \in Codes}

\* ExecutionState.__init__ on the dataset and the plan that were read.
Init ==
    /\ text = None
    /\ pd_keep = "unset"
    /\ files = {}
    /\ raw = None
    /\ api_key \in BOOLEAN
    /\ replies \in ReplySets
    /\ df \in InitFrames
    /\ plan \in {PlanOf(n) : n \in 0..MaxPlanLen}
    /\ step_index = 0
    /\ attempt = 1
    /\ history = << >>
    /\ step_text = None
    /\ step_number = 0
    /\ success = FALSE
    /\ last_error = None
    /\ before_df = NoFrame
    /\ code = NoCode
    /\ result = NoResult
    /\ after_df = NoFrame
    /\ metrics = None
    /\ feedback = None
    /\ saved = NoFrame
    /\ pc = "while_steps"
    /\ step_begin_df = NoFrame
    /\ attempts_started = 0

\* ----------------------------------------------------- ExecutionState ----
\* A guard of the step loop that lets the cursor reach len(plan).
has_more_steps_Inclusive == step_index <= Len(plan)

has_more_steps == step_index < Len(plan)
\* self.plan[self.step_index]: the step, or the IndexError of the list when
\* the index is not below len(plan) (step_index is never negative).
current_step ==
    IF step_index < Len(plan)
    THEN [raised |-> FALSE, value |-> plan[step_index + 1]]
    ELSE [raised |-> TRUE, value |-> Text("list index out of range")]
\* advance_step that leaves the attempt counter where it is.
advance_step_NoReset == step_index' = step_index + 1 /\ attempt' = attempt
advance_step == step_index' = step_index + 1 /\ attempt' = 1
\* record that keeps only the latest entry.
record_Overwrite(r) == history' = << r >>
record(r) == history' = Append(history, r)

\* ------------------------------------------------ run_execution_agent ----
\* The statements at the head of a step, from step_text = state.current_step()
\* on; an IndexError of current_step leaves run_execution_agent.
StepHead(keeps_last_error) ==
    IF current_step.raised
    THEN /\ pc' = "IndexError"
         /\ UNCHANGED <<step_text, step_number, success, last_error,
                        step_begin_df>>
    ELSE /\ step_text' = current_step.value
         /\ step_number' = step_index + 1
         /\ success' = FALSE
         /\ last_error' = IF keeps_last_error THEN last_error ELSE None
         /\ step_begin_df' = df
         /\ pc' = "while_attempts"

\* A step head that keeps the failure description of the step before.
BeginStep_KeepsLastError ==
    /\ pc = "while_steps"
    /\ has_more_steps
    /\ StepHead(TRUE)
    /\ UNCHANGED <<env, df, step_index, attempt, history, before_df, code,
                   result, after_df, metrics, feedback, saved, attempts_started>>

\* A step head entered without asking has_more_steps.
BeginStep_Unguarded ==
    /\ pc = "while_steps"
    /\ StepHead(FALSE)
    /\ UNCHANGED <<env, df, step_index, attempt, history, before_df, code,
                   result, after_df, metrics, feedback, saved, attempts_started>>

\* while state.has_more_steps(): the head of a step.
BeginStep ==
    /\ pc = "while_steps"
    /\ has_more_steps
    /\ StepHead(FALSE)
    /\ UNCHANGED <<env, df, step_index, attempt, history, before_df, code,
                   result, after_df, metrics, feedback, saved, attempts_started>>

\* The loop over the steps ends.
PlanExhausted ==
    /\ pc = "while_steps"
    /\ ~has_more_steps
    /\ pc' = "persist"
    /\ UNCHANGED <<env, df, step_index, attempt, history, locals, saved,
                   step_begin_df, attempts_started>>

\* An attempt loop that lets one more attempt in.
BeginAttempt_OneMore ==
    /\ pc = "while_attempts"
    /\ attempt <= MAX_RETRIES + 1 /\ ~success
    /\ before_df' = df
    /\ attempts_started' = attempts_started + 1
    /\ pc' = "generate"
    /\ UNCHANGED <<env, df, step_index, attempt, history, step_text, step_number,
                   success, last_error, code, result, after_df, metrics,
                   feedback, saved, step_begin_df>>

\* while state.attempt <= MAX_RETRIES and not success: an attempt starts.
BeginAttempt ==
    /\ pc = "while_attempts"
    /\ attempt <= MAX_RETRIES /\ ~success
    /\ before_df' = df
    /\ attempts_started' = attempts_started + 1
    /\ pc' = "generate"
    /\ UNCHANGED <<env, df, step_index, attempt, history, step_text, step_number,
                   success, last_error, code, result, after_df, metrics,
                   feedback, saved, step_begin_df>>

\* An attempt loop that is left on success only.
AttemptsOver_OnlyOnSuccess ==
    /\ pc = "while_attempts"
    /\ success
    /\ pc' = "after_attempts"
    /\ UNCHANGED <<env, df, step_index, attempt, history, locals, saved,
                   step_begin_df, attempts_started>>

\* The loop over the attempts ends.
AttemptsOver ==
    /\ pc = "while_attempts"
    /\ ~(attempt <= MAX_RETRIES /\ ~success)
    /\ pc' = "after_attempts"
    /\ UNCHANGED <<env, df, step_index, attempt, history, locals, saved,
                   step_begin_df, attempts_started>>

\* A collaborator that answers although the key is not set.
GenerateNoKey_Ignored ==
    /\ pc = "generate"
    /\ ~api_key
    /\ pc' = "execute"
    /\ feedback' = last_error
    /\ \E c \in replies : code' = c
    /\ UNCHANGED <<env, df, step_index, attempt, history, step_text, step_number,
                   success, last_error, before_df, result, after_df, metrics,
                   saved, step_begin_df, attempts_started>>

\* generate_code_for_step raises EnvironmentError: the key is not set.
GenerateNoKey ==
    /\ pc = "generate"
    /\ ~api_key
    /\ feedback' = last_error
    /\ pc' = "EnvironmentError"
    /\ UNCHANGED <<env, df, step_index, attempt, history, step_text, step_number,
                   success, last_error, before_df, code, result, after_df,
                   metrics, saved, step_begin_df, attempts_started>>

\* The request to the collaborator raises (the call has no handler).
GenerateRaises ==
    /\ pc = "generate"
    /\ api_key
    /\ feedback' = last_error
    /\ pc' = "ApiError"
    /\ UNCHANGED <<env, df, step_index, attempt, history, step_text, step_number,
                   success, last_error, before_df, code, result, after_df,
                   metrics, saved, step_begin_df, attempts_started>>

\* generate_code_for_step returns a code string.
GenerateCode ==
    /\ pc = "generate"
    /\ api_key
    /\ pc' = "execute"
    /\ feedback' = last_error
    /\ \E c \in replies : code' = c
    /\ UNCHANGED <<env, df, step_index, attempt, history, step_text, step_number,
                   success, last_error, before_df, result, after_df, metrics,
                   saved, step_begin_df, attempts_started>>

\* result = execute_cleaning_code.run({"df": state.df, "code": code}): the
\* result, and what the evaluated code left behind it.
Execute ==
    /\ pc = "execute"
    /\ result' = execute_cleaning_code(code, df)
    /\ df' = evaluated(code, df).state_df
    /\ pd_keep' = evaluated(code, df).keep
    /\ files' = evaluated(code, df).files
    /\ pc' = "check_status"
    /\ UNCHANGED <<inputs, step_index, attempt, history, step_text, step_number,
                   success, last_error, before_df, code, after_df, metrics,
                   feedback, saved, step_begin_df, attempts_started>>

\* An execution error that is recorded as a rejection.
RecordExecutionError_AsRejected ==
    /\ pc = "check_status"
    /\ result.status = "error"
    /\ last_error' = result.error
    /\ record([step |-> step_number, attempt |-> attempt,
               error |-> result.error, status |-> "rejected",
               generated_code |-> code])
    /\ pc' = "error_retry"
    /\ UNCHANGED <<env, df, step_index, attempt, step_text, step_number, success,
                   before_df, code, result, after_df, metrics, feedback, saved,
                   step_begin_df, attempts_started>>

\* if result["status"] == "error": the record of an execution error.
RecordExecutionError ==
    /\ pc = "check_status"
    /\ result.status = "error"
    /\ last_error' = result.error
    /\ record([step |-> step_number, attempt |-> attempt,
               error |-> result.error, status |-> "execution_error",
               generated_code |-> code])
    /\ pc' = "error_retry"
    /\ UNCHANGED <<env, df, step_index, attempt, step_text, step_number, success,
                   before_df, code, result, after_df, metrics, feedback, saved,
                   step_begin_df, attempts_started>>

\* An execution error that ends the run instead of being retried.
ErrorRetry_Raises ==
    /\ pc = "error_retry"
    /\ pc' = "RuntimeError"
    /\ UNCHANGED <<env, df, step_index, attempt, history, locals, saved,
                   step_begin_df, attempts_started>>

\* state.attempt += 1; continue
ErrorRetry ==
    /\ pc = "error_retry"
    /\ attempt' = attempt + 1
    /\ pc' = "while_attempts"
    /\ UNCHANGED <<env, df, step_index, history, locals, saved, step_begin_df,
                   attempts_started>>

\* An evaluation that puts the candidate into state.df before the decision.
Evaluate_CommitsEarly ==
    /\ pc = "check_status"
    /\ result.status # "error"
    /\ after_df' = result.df
    /\ df' = result.df
    /\ metrics' = evaluate_step(before_df, result.df)
    /\ pc' = "decide"
    /\ UNCHANGED <<env, step_index, attempt, history, step_text, step_number,
                   success, last_error, before_df, code, result, feedback, saved,
                   step_begin_df, attempts_started>>

\* after_df = result["df"]; metrics = evaluate_step(before_df, after_df)
Evaluate ==
    /\ pc = "check_status"
    /\ result.status # "error"
    /\ after_df' = result.df
    /\ metrics' = evaluate_step(before_df, result.df)
    /\ pc' = "decide"
    /\ UNCHANGED <<env, df, step_index, attempt, history, step_text, step_number,
                   success, last_error, before_df, code, result, feedback, saved,
                   step_begin_df, attempts_started>>

\* state.df = after_df makes the returned object the one state.df refers
\* to; the object it referred to before is referred to by nothing else.
Committed(keep) ==
    IF keep = "candidate" THEN "state"
    ELSE IF keep = "state" THEN "other"
    ELSE keep

\* Commit without the threshold: every successful execution is committed.
Commit_NoThreshold ==
    /\ pc = "decide"
    /\ df' = after_df
    /\ pd_keep' = Committed(pd_keep)
    /\ success' = TRUE
    /\ pc' = "record_accepted"
    /\ UNCHANGED <<inputs, files, step_index, attempt, history, step_text, step_number,
                   last_error, before_df, code, result, after_df, metrics,
                   feedback, saved, step_begin_df, attempts_started>>

\* if metrics["row_drop_pct"] <= 10: state.df = after_df; success = True
Commit ==
    /\ pc = "decide"
    /\ metrics.row_drop_pct <= ROW_DROP_LIMIT
    /\ df' = after_df
    /\ pd_keep' = Committed(pd_keep)
    /\ success' = TRUE
    /\ pc' = "record_accepted"
    /\ UNCHANGED <<inputs, files, step_index, attempt, history, step_text, step_number,
                   last_error, before_df, code, result, after_df, metrics,
                   feedback, saved, step_begin_df, attempts_started>>

\* An acceptance that leaves no record behind.
RecordAccepted_Skips ==
    /\ pc = "record_accepted"
    /\ pc' = "while_attempts"
    /\ UNCHANGED <<env, df, step_index, attempt, history, locals, saved,
                   step_begin_df, attempts_started>>

\* The record of the accepted attempt.
RecordAccepted ==
    /\ pc = "record_accepted"
    /\ record([step |-> step_number, attempt |-> attempt, metrics |-> metrics,
               status |-> "accepted", generated_code |-> code])
    /\ pc' = "while_attempts"
    /\ UNCHANGED <<env, df, step_index, attempt, locals, saved, step_begin_df,
                   attempts_started>>

\* The text of a rejection: f"Row drop percentage too high: {pct}% (limit: 10%)"
RejectionText(pct) == <<"Row drop percentage too high: ", pct, "% (limit: 10%)">>

\* A rejection that keeps the candidate in state.df all the same.
RecordRejected_KeepsCandidate ==
    /\ pc = "decide"
    /\ ~(metrics.row_drop_pct <= ROW_DROP_LIMIT)
    /\ last_error' = RejectionText(metrics.row_drop_pct)
    /\ record([step |-> step_number, attempt |-> attempt, metrics |-> metrics,
               status |-> "rejected", generated_code |-> code])
    /\ df' = after_df
    /\ pc' = "reject_retry"
    /\ UNCHANGED <<env, step_index, attempt, step_text, step_number, success,
                   before_df, code, result, after_df, metrics, feedback, saved,
                   step_begin_df, attempts_started>>

\* A gate that also rejects a candidate whose number of columns changed.
RecordRejected_AlsoOnColumnChange ==
    /\ pc = "decide"
    /\ \/ ~(metrics.row_drop_pct <= ROW_DROP_LIMIT)
       \/ metrics.columns_after # metrics.columns_before
    /\ last_error' = RejectionText(metrics.row_drop_pct)
    /\ record([step |-> step_number, attempt |-> attempt, metrics |-> metrics,
               status |-> "rejected", generated_code |-> code])
    /\ pc' = "reject_retry"
    /\ UNCHANGED <<env, df, step_index, attempt, step_text, step_number, success,
                   before_df, code, result, after_df, metrics, feedback, saved,
                   step_begin_df, attempts_started>>

\* else: the record of a rejected attempt.
RecordRejected ==
    /\ pc = "decide"
    /\ ~(metrics.row_drop_pct <= ROW_DROP_LIMIT)
    /\ last_error' = RejectionText(metrics.row_drop_pct)
    /\ record([step |-> step_number, attempt |-> attempt, metrics |-> metrics,
               status |-> "rejected", generated_code |-> code])
    /\ pc' = "reject_retry"
    /\ UNCHANGED <<env, df, step_index, attempt, step_text, step_number, success,
                   before_df, code, result, after_df, metrics, feedback, saved,
                   step_begin_df, attempts_started>>

\* A retry that skips an attempt number.
RejectRetry_SkipsOne ==
    /\ pc = "reject_retry"
    /\ attempt' = attempt + 2
    /\ pc' = "while_attempts"
    /\ UNCHANGED <<env, df, step_index, history, locals, saved, step_begin_df,
                   attempts_started>>

\* state.attempt += 1
RejectRetry ==
    /\ pc = "reject_retry"
    /\ attempt' = attempt + 1
    /\ pc' = "while_attempts"
    /\ UNCHANGED <<env, df, step_index, history, locals, saved, step_begin_df,
                   attempts_started>>

\* A fatal failure that writes the dataset out before it raises.
Fatal_Persists ==
    /\ pc = "after_attempts"
    /\ ~success
    /\ saved' = df
    /\ pc' = "RuntimeError"
    /\ UNCHANGED <<env, df, step_index, attempt, history, locals,
                   step_begin_df, attempts_started>>

\* if not success: raise RuntimeError(...)
Fatal ==
    /\ pc = "after_attempts"
    /\ ~success
    /\ pc' = "RuntimeError"
    /\ UNCHANGED <<env, df, step_index, attempt, history, locals, saved,
                   step_begin_df, attempts_started>>

\* An advance that does not ask whether the step was accepted.
AdvanceStep_Unconditional ==
    /\ pc = "after_attempts"
    /\ advance_step
    /\ pc' = "while_steps"
    /\ UNCHANGED <<env, df, history, locals, saved, step_begin_df,
                   attempts_started>>

\* state.advance_step()
AdvanceStep ==
    /\ pc = "after_attempts"
    /\ success
    /\ advance_step
    /\ pc' = "while_steps"
    /\ UNCHANGED <<env, df, history, locals, saved, step_begin_df,
                   attempts_started>>

\* state.df.to_csv(cleaned_path, index=False); return state.df
Persist ==
    /\ pc = "persist"
    /\ saved' = df
    /\ pc' = "done"
    /\ UNCHANGED <<env, df, step_index, attempt, history, locals, step_begin_df,
                   attempts_started>>

Next ==
    \/ BeginStep
    \/ PlanExhausted
    \/ BeginAttempt
    \/ AttemptsOver
    \/ GenerateNoKey
    \/ GenerateRaises
    \/ GenerateCode
    \/ Execute
    \/ RecordExecutionError
    \/ ErrorRetry
    \/ Evaluate
    \/ Commit
    \/ RecordAccepted
    \/ RecordRejected
    \/ RejectRetry
    \/ Fatal
    \/ AdvanceStep
    \/ Persist

Spec == Init /\ [][Next]_vars

\* run_execution_agent is one sequential thread: as long as a statement is
\* left to run and the call it makes returns or raises, it is run. Every
\* statement moves pc.
SpecFair == Spec /\ WF_pc(Next)

\* ------------------------------------- code that reaches beyond its df ----
\* Replies that use what exec hands to the code besides the working copy:
\* the pandas module object, which is shared by every evaluation of the
\* process, and the methods of a DataFrame.
SandboxCodes == {"pd.keep = df",
                 "pd.keep.drop(pd.keep.index[:50], inplace=True)\ndf = df.undefined",
                 "df.drop(df.index[:50], inplace=True)\ndf = df.undefined",
                 "df.to_csv('out.csv')",
                 "df = df.head(95)",
                 "df = df.head(85)"}

InitSandbox ==
    /\ text = None
    /\ pd_keep = "unset"
    /\ files = {}
    /\ raw = None
    /\ api_key \in BOOLEAN
    /\ replies \in {{a, b} : a \in SandboxCodes, b \in SandboxCodes}
    /\ df \in InitFrames
    /\ plan \in {PlanOf(n) : n \in 0..MaxPlanLen}
    /\ step_index = 0
    /\ attempt = 1
    /\ history = << >>
    /\ step_text = None
    /\ step_number = 0
    /\ success = FALSE
    /\ last_error = None
    /\ before_df = NoFrame
    /\ code = NoCode
    /\ result = NoResult
    /\ after_df = NoFrame
    /\ metrics = None
    /\ feedback = None
    /\ saved = NoFrame
    /\ pc = "while_steps"
    /\ step_begin_df = NoFrame
    /\ attempts_started = 0

SpecSandbox == InitSandbox /\ [][Next]_vars

\* ------------------------------------------- evaluate_step on its own ----
EvalRows == (0..MaxEvalRows) \cup {100, 18000, 20001}
EvalFrames ==
    {Frame(r, c, n) : r \in EvalRows, c \in {3}, n \in {0, 2}} \ {Frame(0, 3, 2)}

\* A caller about to apply evaluate_step to two datasets.
InitEval ==
    /\ text = None
    /\ pd_keep = "unset"
    /\ files = {}
    /\ raw = None
    /\ api_key = TRUE
    /\ replies = {""}
    /\ df = Frame(0, 3, 0)
    /\ plan = << >>
    /\ step_index = 0
    /\ attempt = 1
    /\ history = << >>
    /\ step_text = None
    /\ step_number = 0
    /\ success = FALSE
    /\ last_error = None
    /\ before_df \in EvalFrames
    /\ code = NoCode
    /\ result = NoResult
    /\ after_df \in EvalFrames
    /\ metrics = None
    /\ feedback = None
    /\ saved = NoFrame
    /\ pc = "evaluate_step"
    /\ step_begin_df = NoFrame
    /\ attempts_started = 0

\* metrics = evaluate_step(before_df, after_df)
EvaluateStepCall ==
    /\ pc = "evaluate_step"
    /\ metrics' = evaluate_step(before_df, after_df)
    /\ pc' = "evaluated"
    /\ UNCHANGED <<env, df, step_index, attempt, history, step_text, step_number,
                   success, last_error, before_df, code, result, after_df,
                   feedback, saved, step_begin_df, attempts_started>>

NextEval == EvaluateStepCall

SpecEval == InitEval /\ [][NextEval]_vars

\* ------------------------------------------- load_plan_text on its own ----
\* The lines a plan file is made of: marker lines, body lines, a marker
\* after leading whitespace, "Step " before a word, a lower-case marker, an
\* empty line and a line of blanks.
PlanLines ==
    {<<"S", "t", "e", "p", " ", "1", ":", " ", "a">>,
     <<"D", "o", " ", "X">>,
     <<"S", "t", "e", "p", " ", "2", ":", " ", "b">>,
     <<" ", "S", "t", "e", "p", " ", "3", ":", " ", "c">>,
     <<"S", "t", "e", "p", " ", "b", "y", " ", "s", "t", "e", "p">>,
     <<"s", "t", "e", "p", " ", "4", ":", " ", "d">>,
     << >>,
     <<" ", " ">>}

\* The plan files of at most MaxLines lines, with and without a final
\* line boundary.
PlanTexts ==
    LET seqs == UNION {[1..n -> PlanLines] : n \in 0..MaxLines}
    IN  {join(<< "\n" >>, ls) \o e : ls \in seqs, e \in {<< >>, << "\n" >>}}

\* "Step 1: Fix nulls", "Do X", "Step 2: Drop dupes", "Do Y" on four lines.
ExampleText ==
    <<"S", "t", "e", "p", " ", "1", ":", " ", "F", "i", "x", " ", "n", "u",
      "l", "l", "s", "\n", "D", "o", " ", "X", "\n", "S", "t", "e", "p",
      " ", "2", ":", " ", "D", "r", "o", "p", " ", "d", "u", "p", "e", "s",
      "\n", "D", "o", " ", "Y">>

\* The loop over text.splitlines(): a line whose stripped form starts with
\* "Step " closes a non-empty buffer into a step; every line goes into the
\* buffer; what is left in the buffer at the end is the last step.
RECURSIVE plan_loop(_, _, _)
plan_loop(lines, steps, buffer) ==
    IF lines = << >>
    THEN IF buffer # << >>
         THEN Append(steps, strip(join(<< "\n" >>, buffer)))
         ELSE steps
    ELSE LET line == Head(lines)
         IN  IF startswith(strip(line), <<"S", "t", "e", "p", " ">>) /\ buffer # << >>
             THEN plan_loop(Tail(lines),
                            Append(steps, strip(join(<< "\n" >>, buffer))),
                            << line >>)
             ELSE plan_loop(Tail(lines), steps, Append(buffer, line))

load_plan_text(t) == plan_loop(splitlines(t), << >>, << >>)

\* A caller about to read a plan file.
InitPlan ==
    /\ text \in PlanTexts \cup {ExampleText}
    /\ pd_keep = "unset"
    /\ files = {}
    /\ raw = None
    /\ api_key = TRUE
    /\ replies = {""}
    /\ df = Frame(0, 3, 0)
    /\ plan = << >>
    /\ step_index = 0
    /\ attempt = 1
    /\ history = << >>
    /\ step_text = None
    /\ step_number = 0
    /\ success = FALSE
    /\ last_error = None
    /\ before_df = NoFrame
    /\ code = NoCode
    /\ result = NoResult
    /\ after_df = NoFrame
    /\ metrics = None
    /\ feedback = None
    /\ saved = NoFrame
    /\ pc = "load_plan_text"
    /\ step_begin_df = NoFrame
    /\ attempts_started = 0

\* plan = load_plan_text(plan_path)
LoadPlanText ==
    /\ pc = "load_plan_text"
    /\ plan' = load_plan_text(text)
    /\ pc' = "plan_loaded"
    /\ UNCHANGED <<text, raw, pd_keep, files, api_key, replies, df, step_index,
                   attempt, history, locals, saved, step_begin_df,
                   attempts_started>>

NextPlan == LoadPlanText

SpecPlan == InitPlan /\ [][NextPlan]_vars

\* ------------------- the sanitisation of generate_code_for_step on its own ----
\* The marker of a fenced block: three backquotes.
Fence == <<"BQ", "BQ", "BQ">>

\* The lines of a reply: the two forms of import statement, an indented
\* import, an assignment, an assignment to a name that begins with
\* "import", and an empty line.
CodeLines ==
    {<<"i", "m", "p", "o", "r", "t", " ", "o", "s">>,
     <<"f", "r", "o", "m", " ", "o", "s", " ", "i", "m", "p", "o", "r", "t", " ", "p", "a", "t", "h">>,
     <<"d", "f", " ", "=", " ", "d", "f", ".", "d", "r", "o", "p", "n", "a", "(", ")">>,
     <<"i", "m", "p", "o", "r", "t", "a", "n", "t", " ", "=", " ", "1">>,
     <<" ", " ", "i", "m", "p", "o", "r", "t", " ", "r", "e">>,
     << >>}

\* The replies of at most MaxLines lines: bare, in a fenced block tagged
\* Python, and in a fenced block without tag.
RawTexts ==
    LET seqs == UNION {[1..n -> CodeLines] : n \in 0..MaxLines}
        bodies == {join(<< "\n" >>, ls) : ls \in seqs}
    IN  bodies
        \cup {Fence \o <<"P", "y", "t", "h", "o", "n", "\n">> \o b \o << "\n" >> \o Fence :
                  b \in bodies}
        \cup {Fence \o << "\n" >> \o b \o << "\n" >> \o Fence \o << "\n" >> :
                  b \in bodies}

\* The content stripped, taken out of its fenced block and rid of a leading
\* "python".
unfence(content) ==
    LET c0 == strip(content)
        parts == split(c0, Fence)
        c1 == IF startswith(c0, Fence) /\ Len(parts) >= 2
              THEN strip(parts[2])
              ELSE c0
    IN  IF startswith(lower(c1), <<"p", "y", "t", "h", "o", "n">>)
        THEN strip(SubSeq(c1, Len(<<"p", "y", "t", "h", "o", "n">>) + 1, Len(c1)))
        ELSE c1

\* The line filter: a line whose stripped form starts with "import" is left
\* out.
drop_imports(c) ==
    LET keep(line) == ~startswith(strip(line), <<"i", "m", "p", "o", "r", "t">>)
    IN  strip(join(<< "\n" >>, SelectSeq(splitlines(c), keep)))

\* The code generate_code_for_step returns for the content of a response.
sanitize(content) == drop_imports(unfence(content))

\* generate_code_for_step holds the response of the collaborator.
InitSanitize ==
    /\ text = None
    /\ pd_keep = "unset"
    /\ files = {}
    /\ raw \in RawTexts
    /\ api_key = TRUE
    /\ replies = {""}
    /\ df = Frame(0, 3, 0)
    /\ plan = << >>
    /\ step_index = 0
    /\ attempt = 1
    /\ history = << >>
    /\ step_text = None
    /\ step_number = 0
    /\ success = FALSE
    /\ last_error = None
    /\ before_df = NoFrame
    /\ code = None
    /\ result = NoResult
    /\ after_df = NoFrame
    /\ metrics = None
    /\ feedback = None
    /\ saved = NoFrame
    /\ pc = "sanitize"
    /\ step_begin_df = NoFrame
    /\ attempts_started = 0

\* code = response.choices[0].message.content.strip() ... return code
Sanitize ==
    /\ pc = "sanitize"
    /\ code' = sanitize(raw)
    /\ pc' = "sanitized"
    /\ UNCHANGED <<env, df, step_index, attempt, history, step_text, step_number,
                   success, last_error, before_df, result, after_df, metrics,
                   feedback, saved, step_begin_df, attempts_started>>

NextSanitize == Sanitize

SpecSanitize == InitSanitize /\ [][NextSanitize]_vars

\* ============================================================= claims ====
Last(h) == h[Len(h)]
Statuses == {history[i].status : i \in 1..Len(history)}

\* The acceptance policy on the attempt in hand: the executor reported success
\* and evaluate_step's row-drop percentage of (before_df, result df) is <= 10.
Accepts ==
    /\ result.status = "success"
    /\ evaluate_step(before_df, result.df).row_drop_pct <= ROW_DROP_LIMIT

\* C1: an attempt is accepted (state.df replaced by the candidate, status
\* 'accepted' recorded) if and only if execute_cleaning_code reported success
\* and row_drop_pct <= 10; an execution failure or a row_drop_pct > 10 gives a
\* non-accepted record, leaves state.df alone and increments the attempt
\* counter for the retry.
C1_AcceptIff ==
    [][ /\ (df' # df => pc = "decide" /\ Accepts /\ df' = result.df)
        /\ (Len(history') > Len(history) =>
              /\ pc \in {"check_status", "decide", "record_accepted"}
              /\ (Last(history').status = "accepted" <=> Accepts)
              /\ (Accepts => df' = result.df /\ success')
              /\ (~Accepts => df' = before_df /\ ~success'
                              /\ pc' \in {"error_retry", "reject_retry"}))
        /\ (pc \in {"error_retry", "reject_retry"} =>
              ~Accepts /\ attempt' = attempt + 1 /\ df' = df
              /\ pc' = "while_attempts")
      ]_vars

\* C1 witness: a run in which one attempt was rejected and another accepted.
C1_Witness ==
    /\ "rejected" \in Statuses
    /\ "accepted" \in Statuses

\* C2: the dataset committed by an accepted attempt has lost at most 10% of
\* the rows of the dataset before the step, counted exactly:
\* (rows_before - rows_after) * 100 <= 10 * max(rows_before, 1).
C2_RowLossAtMostTenPercent ==
    pc = "record_accepted" =>
        (before_df.rows - df.rows) * 100 <= 10 * Max(before_df.rows, 1)

\* The records of history with the given status.
WithStatus(st) == {i \in 1..Len(history) : history[i].status = st}

\* The current step has used up its attempts: its attempt MAX_RETRIES is
\* recorded and was not accepted.
Exhausted ==
    /\ Len(history) >= MAX_RETRIES
    /\ \A k \in 1..MAX_RETRIES :
          LET r == history[Len(history) - MAX_RETRIES + k]
          IN  r.step = step_index + 1 /\ r.attempt = k /\ r.status # "accepted"

\* The dataset in state.df is the one the latest accepted attempt produced.
EarlierCommitsKept ==
    /\ Cardinality(WithStatus("accepted")) = step_index
    /\ WithStatus("accepted") # {} =>
          LET i == CHOOSE j \in WithStatus("accepted") :
                       \A k \in WithStatus("accepted") : k <= j
              m == history[i].metrics
          IN  Frame(m.rows_after, m.columns_after, m.nulls_after) = df

NeverRebindsDf == {"", "x = 1"}

\* C4: code that never rebinds df makes execute_cleaning_code return an error
\* result, not a success carrying the unmodified dataset.
C4_NoRebindIsError ==
    pc = "check_status" /\ code \in NeverRebindsDf => result.status = "error"

\* The positions outside the body of the attempt loop: no attempt is under way.
BetweenAttempts ==
    pc \in {"while_steps", "while_attempts", "after_attempts", "persist", "done",
            "RuntimeError", "EnvironmentError", "ApiError"}

\* C5 as stated: whenever no attempt is under way, history holds one record per
\* attempt started, whatever the outcome of the attempt.
C5_OneRecordPerAttemptStarted ==
    BetweenAttempts => Len(history) = attempts_started

\* C5 as amended: history is append-only (an operation leaves it alone or adds
\* one record at its end); every attempt that ends as execution error,
\* rejection or acceptance adds exactly one record; an attempt cut short by an
\* exception of generate_code_for_step adds none.
C5_AppendOnly ==
    [][ /\ Len(history') \in {Len(history), Len(history) + 1}
        /\ SubSeq(history', 1, Len(history)) = history
        /\ (BetweenAttempts' =>
              Len(history') = attempts_started'
                  - (IF pc' \in {"EnvironmentError", "ApiError"} THEN 1 ELSE 0))
        /\ (pc \in {"check_status", "decide", "record_accepted"}
            /\ pc' \in {"error_retry", "reject_retry", "while_attempts"} =>
              Len(history') = Len(history) + 1)
      ]_vars

\* C5 witness: an execution error and an acceptance are recorded, and the
\* third attempt is cut short by the collaborator.
C5_Witness ==
    /\ pc = "ApiError"
    /\ Len(history) = 2
    /\ attempts_started = 3
    /\ Statuses = {"execution_error", "accepted"}

\* C6: the attempt counter goes back to 1 exactly when step_index advances;
\* while step_index stays it is left alone or, after a recorded failure,
\* incremented by 1; the first attempt of a step is attempt 1.
C6_AttemptReset ==
    [][ /\ (step_index' # step_index =>
              step_index' = step_index + 1 /\ attempt' = 1)
        /\ (step_index' = step_index =>
              \/ attempt' = attempt
              \/ /\ attempt' = attempt + 1
                 /\ pc \in {"error_retry", "reject_retry"})
        /\ (pc' = "generate"
            /\ (\A i \in 1..Len(history') : history'[i].step # step_number') =>
              attempt' = 1)
      ]_vars

\* C6 witness: the second step starts its first attempt after the first step
\* needed more than one.
C6_Witness ==
    /\ pc = "generate"
    /\ step_index = 1
    /\ attempt = 1
    /\ \E i \in 1..Len(history) : history[i].step = 1 /\ history[i].attempt >= 2

\* The code leaves a dataset in df that equals the dataset it was given.
IsNoop(c, d) ==
    LET x == Exec(c, Globals(d))
    IN  ~x.raised /\ x.globals.has_df /\ x.globals.is_frame /\ x.globals.df = d

\* C7: a transformation whose result equals its input is returned as success
\* with noop set, and the controller accepts it on that attempt with
\* row_drop_pct = 0: no error record, no rejection, no retry consumed.
C7_NoopAccepted ==
    [][ /\ (pc = "execute" /\ IsNoop(code, df) =>
              result'.status = "success" /\ result'.noop /\ result'.df = df)
        /\ (pc = "check_status" /\ result.noop =>
              pc' = "decide" /\ metrics'.row_drop_pct = 0)
        /\ (pc = "decide" /\ result.noop => pc' = "record_accepted")
        /\ (pc \in {"check_status", "decide", "record_accepted"} /\ result.noop =>
              attempt' = attempt)
        /\ (Len(history') > Len(history) /\ result.noop =>
              /\ Last(history').status = "accepted"
              /\ Last(history').attempt = attempt
              /\ pc' = "while_attempts" /\ success')
      ]_vars

\* C7 witness: the no-op of df = df.copy() is committed.
C7_Witness ==
    /\ pc = "record_accepted"
    /\ code = "df = df.copy()"
    /\ result.noop
    /\ metrics.row_drop_pct = 0

Abs(x) == IF x >= 0 THEN x ELSE -x

\* C8: evaluate_step returns rows_dropped = rows_before - rows_after (signed)
\* and row_drop_pct = rows_dropped / max(rows_before, 1) * 100 rounded to two
\* decimals (the nearest hundredth, an exact tie to the even one), for every
\* pair of datasets, an empty before and a growing after included.
C8_EvaluateStep ==
    pc = "evaluated" =>
        LET rb == before_df.rows
            ra == after_df.rows
            m == IF rb >= 1 THEN rb ELSE 1
            h == metrics.row_drop_pct
        IN  /\ metrics.rows_before = rb
            /\ metrics.rows_after = ra
            /\ metrics.rows_dropped = rb - ra
            /\ 2 * Abs(h * m - 10000 * (rb - ra)) <= m
            /\ (2 * Abs(h * m - 10000 * (rb - ra)) = m => h % 2 = 0)
            /\ (rb = 0 => h = -100 * 100 * ra)

\* C8 witness: an empty dataset before and rows after: a negative percentage
\* over the divisor 1.
C8_Witness ==
    /\ pc = "evaluated"
    /\ before_df.rows = 0
    /\ after_df.rows = 2
    /\ metrics.rows_dropped = -2
    /\ metrics.row_drop_pct = -20000

\* The code fails: it raises, it leaves no df, or it leaves a df that is no
\* DataFrame.
Fails(c, d) ==
    LET x == Exec(c, Globals(d))
    IN  x.raised \/ ~x.globals.has_df \/ ~x.globals.is_frame

FailureText(r) ==
    IF r.status = "execution_error" THEN r.error
    ELSE RejectionText(r.metrics.row_drop_pct)

\* C10: the feedback given to generate_code_for_step is absent for attempt 1
\* of every step, and for attempt n > 1 it is the failure description of
\* attempt n - 1 of the same step.
C10_FeedbackThreading ==
    pc \in {"execute", "check_status", "decide", "EnvironmentError", "ApiError"} =>
        IF attempt = 1 THEN feedback = None
        ELSE /\ Len(history) >= 1
             /\ Last(history).step = step_number
             /\ Last(history).attempt = attempt - 1
             /\ Last(history).status # "accepted"
             /\ feedback = FailureText(Last(history))

\* C10 witness: step 1 was rejected at 15%, then accepted; attempt 2 of step 2
\* gets the 10.53% rejection of attempt 1 of step 2 as its feedback.
C10_Witness ==
    /\ pc = "execute"
    /\ step_number = 2
    /\ attempt = 2
    /\ Len(history) = 3
    /\ FailureText(history[1]) = RejectionText(1500)
    /\ feedback = RejectionText(1053)

\* ---------------------------------------------------- load_plan_text ----
Digits == {"0", "1", "2", "3", "4", "5", "6", "7", "8", "9"}

\* A line that starts, in its first column, with the token Step, a blank and
\* a number.
IsStepMarker(line) ==
    /\ startswith(line, <<"S", "t", "e", "p", " ">>)
    /\ Len(line) >= 6
    /\ line[6] \in Digits

\* The steps of the lines ls when the steps start at the lines of starts:
\* each step is the stripped text from its first line up to the line before
\* the next start.
StepsFrom(ls, starts) ==
    LET nth(k) == CHOOSE i \in starts :
                      Cardinality({j \in starts : j < i}) = k - 1
        upto(k) == IF k = Cardinality(starts) THEN Len(ls) ELSE nth(k + 1) - 1
    IN  [k \in 1..Cardinality(starts) |->
            strip(join(<< "\n" >>, SubSeq(ls, nth(k), upto(k))))]

\* C11: load_plan_text starts a new step at a line if and only if the line
\* starts with the token Step followed by a number; a line with whitespace
\* before the token, or with a word after it, stays in the body of the
\* current step. The four-line example text gives exactly two steps, each
\* with its marker line and its body.
C11_StepMarkers ==
    pc = "plan_loaded" =>
        LET ls == splitlines(text)
            starts == {i \in 1..Len(ls) : i = 1 \/ IsStepMarker(ls[i])}
        IN  /\ plan = StepsFrom(ls, starts)
            /\ text = ExampleText =>
                  /\ Len(plan) = 2
                  /\ IsStepMarker(plan[1]) /\ IsStepMarker(plan[2])

\* C11, the part that holds: the example text gives its two steps.
C11_ExampleSplits ==
    pc = "plan_loaded" /\ text = ExampleText =>
        plan = StepsFrom(splitlines(text), {1, 3})

\* C12: every element load_plan_text returns is a non-empty, trimmed string;
\* the empty text gives the empty sequence; a text without a marker line
\* gives one step, the trimmed text. Texts of blank lines only and texts with
\* blank lines before the first marker included.
C12_NonEmptyTrimmedSteps ==
    pc = "plan_loaded" =>
        LET ls == splitlines(text)
            marked == \E i \in 1..Len(ls) :
                          startswith(strip(ls[i]), <<"S", "t", "e", "p", " ">>)
        IN  /\ \A k \in 1..Len(plan) : plan[k] # << >> /\ strip(plan[k]) = plan[k]
            /\ text = << >> => plan = << >>
            /\ text # << >> /\ ~marked => plan = << strip(text) >>

\* C12, the part that holds: the steps are trimmed, the empty text gives no
\* step, and a text without a marker line and not all blank gives one step.
C12_TrimmedSteps ==
    pc = "plan_loaded" =>
        LET ls == splitlines(text)
            marked == \E i \in 1..Len(ls) :
                          startswith(strip(ls[i]), <<"S", "t", "e", "p", " ">>)
        IN  /\ \A k \in 1..Len(plan) : strip(plan[k]) = plan[k]
            /\ text = << >> => plan = << >>
            /\ text # << >> /\ ~marked => plan = << strip(text) >>

\* ------------------------------------------------- order of the record ----
\* The attempt in hand has its record: the latest record is the one of this
\* step and this attempt.
Recorded ==
    /\ history # << >>
    /\ Last(history).step = step_number
    /\ Last(history).attempt = attempt

\* C13 as stated: the outcome of an attempt is in history before the
\* controller touches the execution state again; on acceptance the record is
\* appended before state.df is replaced and before advance_step.
C13_RecordBeforeCommit ==
    [][ /\ (df' # df => Recorded)
        /\ (attempt' # attempt => Recorded)
        /\ (step_index' # step_index => Recorded)
      ]_vars

\* C13 as amended: the record of an attempt is in history before the attempt
\* counter changes, before another attempt starts, before advance_step and
\* before the dataset is persisted. On acceptance state.df is replaced first,
\* not yet recorded, and the next thing the controller does is append the
\* 'accepted' record.
C13_RecordBeforeProceeding ==
    [][ /\ (attempt' # attempt => Recorded)
        /\ (step_index' # step_index =>
              Recorded /\ Last(history).status = "accepted")
        /\ (attempts_started' # attempts_started =>
              Len(history) = attempts_started)
        /\ (saved' # saved => Len(history) = attempts_started)
        /\ (df' # df =>
              ~Recorded /\ history' = history /\ pc' = "record_accepted")
        /\ (pc = "record_accepted" =>
              /\ history' = Append(history,
                                   [step |-> step_number, attempt |-> attempt,
                                    metrics |-> metrics, status |-> "accepted",
                                    generated_code |-> code])
              /\ df' = df /\ attempt' = attempt /\ step_index' = step_index)
      ]_vars

\* C13 witness: the second attempt of step 1 changed the dataset, was
\* recorded as accepted, and the controller went on to step 2.
C13_Witness ==
    /\ pc = "while_attempts"
    /\ step_index = 1
    /\ Len(history) = 2
    /\ history[2].status = "accepted"
    /\ history[2].metrics.rows_dropped > 0
    /\ step_begin_df = df

\* ------------------------------------------------- errors ending a run ----
\* The positions of a run that has not failed.
Running ==
    {"while_steps", "while_attempts", "generate", "execute", "check_status",
     "decide", "record_accepted", "error_retry", "reject_retry",
     "after_attempts", "persist", "done"}

\* C14 as stated: a run fails only by a step exhausting its retry budget or
\* by the missing configuration of the collaborator; any other failure during
\* an attempt, a failure of the code-generation call included, is retried.
C14_OnlyTwoFatalKinds ==
    pc \notin Running =>
        \/ pc = "RuntimeError" /\ Exhausted
        \/ pc = "EnvironmentError" /\ ~api_key

\* C14 as amended: three kinds of error end a run: a step that exhausted its
\* retry budget, the missing key of the collaborator, and an exception of the
\* code-generation request; the last two end the run from inside the attempt,
\* without a record and without a retry. An execution error and a rejection
\* are recorded, kept as feedback and retried under the next attempt number.
C14_ThreeFatalKinds ==
    [][ /\ pc' \in Running \cup {"RuntimeError", "EnvironmentError", "ApiError"}
        /\ (pc' = "RuntimeError" =>
              Exhausted' /\ attempt' = MAX_RETRIES + 1)
        /\ (pc' = "EnvironmentError" =>
              ~api_key /\ pc = "generate" /\ history' = history
              /\ attempt' = attempt)
        /\ (pc' = "ApiError" =>
              api_key /\ pc = "generate" /\ history' = history
              /\ attempt' = attempt)
        /\ (\/ pc = "check_status" /\ result.status = "error"
            \/ pc = "decide" /\ ~Accepts
            =>
              /\ Len(history') = Len(history) + 1
              /\ Last(history').status \in {"execution_error", "rejected"}
              /\ Last(history').attempt = attempt
              /\ last_error' = FailureText(Last(history'))
              /\ pc' \in {"error_retry", "reject_retry"})
        /\ (pc \in {"error_retry", "reject_retry"} =>
              attempt' = attempt + 1 /\ pc' = "while_attempts")
      ]_vars

\* C14 witness: after a recorded execution error the request of the second
\* attempt raises, and the run ends there.
C14_Witness ==
    /\ pc = "ApiError"
    /\ attempt = 2
    /\ Len(history) = 1
    /\ history[1].status = "execution_error"
    /\ feedback = history[1].error

\* ------------------------------------------------------ the missing key ----
\* Nothing has been done to the dataset: no code was executed, no record
\* appended, no candidate committed.
Untouched ==
    /\ history = << >>
    /\ result = NoResult
    /\ after_df = NoFrame
    /\ df \in InitFrames
    /\ step_begin_df \in {NoFrame, df}
    /\ before_df \in {NoFrame, df}
    /\ step_index = 0
    /\ attempt = 1

\* C15 as stated: without the key every run, the run of the empty plan
\* included, fails with the configuration error before any code is executed,
\* any record appended or the dataset changed: no such run completes.
C15_FailsFastForEveryPlan ==
    ~api_key => Untouched /\ pc \notin {"persist", "done"} /\ saved = NoFrame

\* C15 as amended: without the key a run of a plan with at least one step
\* fails with the EnvironmentError in the first attempt of the first step,
\* before any code is executed, any record appended or the dataset changed,
\* and nothing is persisted; a run of the empty plan never calls the
\* collaborator and completes, persisting the dataset as it was read.
C15_FailsFastOnFirstAttempt ==
    ~api_key =>
        /\ Untouched
        /\ plan # << >> =>
              /\ pc \in {"while_steps", "while_attempts", "generate",
                         "EnvironmentError"}
              /\ saved = NoFrame
              /\ attempts_started <= 1
        /\ plan = << >> =>
              /\ pc \in {"while_steps", "persist", "done"}
              /\ attempts_started = 0
              /\ saved \in {NoFrame, df}
              /\ (pc = "done" <=> saved = df)

\* C15 witness: the key is missing and the first attempt of the first step
\* of a two-step plan has raised the EnvironmentError.
C15_Witness ==
    /\ ~api_key
    /\ pc = "EnvironmentError"
    /\ Len(plan) = 2
    /\ attempts_started = 1
    /\ before_df = df

\* ------------------------------------------------------- the final save ----
\* Every step of the plan has an accepted record.
AllStepsAccepted ==
    \A k \in 1..Len(plan) :
        \E i \in 1..Len(history) :
            history[i].step = k /\ history[i].status = "accepted"

\* C16: the dataset is persisted only after every step of the plan has been
\* accepted: a run that ends in an error never persists, and a successful run
\* persists exactly once, after the last advance_step, the dataset the last
\* accepted step committed.
C16_PersistAfterAllAccepted ==
    [][ /\ (saved' # saved =>
              /\ pc = "persist" /\ pc' = "done"
              /\ saved = NoFrame
              /\ saved' = df /\ df' = df
              /\ step_index = Len(plan)
              /\ AllStepsAccepted
              /\ EarlierCommitsKept)
        /\ (pc' = "done" => saved' = df' /\ saved' # NoFrame)
        /\ (pc' # "done" => saved' = NoFrame)
        /\ (pc = "done" => UNCHANGED vars)
        /\ (step_index' # step_index => saved = NoFrame /\ saved' = NoFrame)
      ]_vars

\* C16 witness: a two-step plan was run to its end, with a rejected attempt
\* and an accepted step that dropped rows on the way, and the dataset of the
\* second accepted step was written.
C16_Witness ==
    /\ pc = "done"
    /\ Len(plan) = 2
    /\ "rejected" \in Statuses
    /\ Last(history).status = "accepted"
    /\ Last(history).step = 2
    /\ saved.rows = Last(history).metrics.rows_after
    /\ \E i \in WithStatus("accepted") : history[i].metrics.rows_dropped > 0

\* --------------------------------------------------------- current_step ----
\* C17: current_step fails with the out-of-range error of the list whenever
\* has_more_steps() is false, which is when step_index = len(plan), and the
\* controller never calls current_step in such a state: it reads a step only
\* under has_more_steps, and the step it reads is plan[step_index].
C17_CurrentStepInRange ==
    [][ /\ step_index' \in 0..Len(plan')
        /\ (~has_more_steps' <=> step_index' = Len(plan'))
        /\ (~has_more_steps' <=> current_step'.raised)
        /\ pc' # "IndexError"
        /\ (pc = "while_steps" /\ ~has_more_steps =>
              pc' = "persist" /\ step_text' = step_text)
        /\ (step_text' # step_text =>
              /\ pc = "while_steps" /\ has_more_steps
              /\ step_text' = plan[step_index + 1])
      ]_vars

\* C17 witness: both steps of a plan were read and accepted, the index has
\* reached len(plan), and the loop over the steps has just been left.
C17_Witness ==
    /\ pc = "persist"
    /\ Len(plan) = 2
    /\ step_index = 2
    /\ ~has_more_steps
    /\ current_step.raised
    /\ step_text = plan[2]

\* --------------------------------------------------------- sanitisation ----
\* str.find(p) >= 0
contains(s, p) == Len(split(s, p)) >= 2

\* An import statement: import x, or from x import y.
IsImport(line) ==
    LET l == strip(line)
    IN  \/ startswith(l, <<"i", "m", "p", "o", "r", "t", " ">>)
        \/ /\ startswith(l, <<"f", "r", "o", "m", " ">>)
           /\ contains(l, <<" ", "i", "m", "p", "o", "r", "t", " ">>)

\* C18: the code handed to the executor has no import statement: after the
\* sanitisation no line is an import, in either form, and no line that is not
\* an import statement has been removed.
C18_NoImportsOnlyImportsRemoved ==
    pc = "sanitized" =>
        LET given == splitlines(unfence(raw))
            keep(line) == ~IsImport(line)
        IN  /\ \A i \in 1..Len(splitlines(code)) : ~IsImport(splitlines(code)[i])
            /\ code = strip(join(<< "\n" >>, SelectSeq(given, keep)))

\* ------------------------------------------ the frame of a failed attempt ----
\* The records of the step in hand with the given status.
StepRecords(st) ==
    {i \in 1..Len(history) :
        history[i].step = step_number /\ history[i].status = st}

RecordsOfStep(k) == {i \in 1..Len(history) : history[i].step = k}

\* C20: a step is attempted at most MAX_RETRIES times; the run becomes fatal
\* exactly when the MAX_RETRIES attempts of one step have all been
\* non-accepted, and an acceptance on attempt MAX_RETRIES still advances the
\* plan. The attempt counter stays within 1..MAX_RETRIES + 1, and it is
\* MAX_RETRIES + 1 only on the way from the last failed attempt to the
\* RuntimeError.
C20_RetryBudget ==
    [][ /\ attempt' \in 1..(MAX_RETRIES + 1)
        /\ (\A i \in 1..Len(history') : history'[i].attempt \in 1..MAX_RETRIES)
        /\ (\A k \in 1..Len(plan') : Cardinality(RecordsOfStep(k)') <= MAX_RETRIES)
        /\ (attempts_started' # attempts_started => attempt <= MAX_RETRIES)
        /\ (attempt' = MAX_RETRIES + 1 <=>
              Exhausted' /\ pc' \in {"while_attempts", "after_attempts",
                                     "RuntimeError"})
        /\ (attempt' = MAX_RETRIES + 1 => ~success')
        /\ (pc' = "RuntimeError" <=>
              Exhausted' /\ attempt' = MAX_RETRIES + 1
              /\ pc' \notin {"while_attempts", "after_attempts"})
        /\ (attempt = MAX_RETRIES + 1 =>
              pc' \in {"after_attempts", "RuntimeError"} /\ attempt' = attempt)
        /\ (pc = "after_attempts" /\ success =>
              step_index' = step_index + 1 /\ pc' = "while_steps")
        /\ (pc = "record_accepted" /\ attempt = MAX_RETRIES =>
              pc' = "while_attempts" /\ success' /\ attempt' = MAX_RETRIES)
      ]_vars

\* C20 witness: step 1 failed four times and was accepted on attempt
\* MAX_RETRIES; the controller is at step 2.
C20_Witness ==
    /\ pc = "while_attempts"
    /\ step_index = 1
    /\ attempt = 1
    /\ Len(history) = MAX_RETRIES
    /\ history[MAX_RETRIES].attempt = MAX_RETRIES
    /\ history[MAX_RETRIES].status = "accepted"

\* ----------------------------------------------------------- plan order ----
\* Step k has an accepted record.
StepAccepted(k) ==
    \E i \in 1..Len(history) :
        history[i].step = k /\ history[i].status = "accepted"

\* C21: the steps run in plan order: step_index starts at 0, never
\* decreases, grows by 1 only, and only right after an accepted attempt of
\* the step it pointed to; 0 <= step_index <= len(plan) throughout; no
\* attempt of a step starts before every earlier step has an accepted
\* record; the plan is never modified.
C21_PlanOrder ==
    [][ /\ plan' = plan
        /\ step_index \in 0..Len(plan) /\ step_index' \in 0..Len(plan)
        /\ (history = << >> /\ pc = "while_steps" => step_index = 0)
        /\ step_index' \in {step_index, step_index + 1}
        /\ (step_index' = step_index + 1 =>
              /\ pc = "after_attempts" /\ success
              /\ Last(history).status = "accepted"
              /\ Last(history).step = step_index + 1
              /\ Last(history).attempt = attempt)
        /\ (attempts_started' # attempts_started =>
              /\ step_number = step_index + 1
              /\ step_text = plan[step_index + 1]
              /\ \A k \in 1..step_index : StepAccepted(k)
              /\ ~StepAccepted(step_index + 1))
        /\ (Len(history') > Len(history) =>
              Last(history').step = step_index + 1)
      ]_vars

\* C21 witness: step 1 was accepted on its first attempt and the second
\* attempt of step 2 has been executed.
C21_Witness ==
    /\ pc = "check_status"
    /\ step_index = 1
    /\ attempt = 2
    /\ Len(history) = 2
    /\ history[1].step = 1 /\ history[1].status = "accepted"
    /\ history[2].step = 2 /\ history[2].status # "accepted"
    /\ step_text = plan[2]

\* ---------------------------------------------------------- termination ----
\* The run is over: the dataset was persisted, or an exception left
\* run_execution_agent.
Ended == pc \in {"done", "RuntimeError", "EnvironmentError", "ApiError"}

\* C22: when every collaborator call and every code evaluation returns, a
\* run ends in success (step_index = len(plan)) or in the fatal failure of a
\* step, after at most MAX_RETRIES * len(plan) attempts; the only other end
\* of a run is a call that raises; the controller cannot loop forever.
C22_Termination ==
    /\ [](attempts_started <= MAX_RETRIES * Len(plan))
    /\ [](pc = "done" => step_index = Len(plan) /\ AllStepsAccepted)
    /\ [](pc = "RuntimeError" => Exhausted)
    /\ <>[]Ended

\* C22 witness: a run of two steps that used up all its ten attempts: step 1
\* was accepted on its last attempt, step 2 failed five times.
C22_Witness ==
    /\ pc = "RuntimeError"
    /\ Len(plan) = 2
    /\ attempts_started = MAX_RETRIES * Len(plan)
    /\ Len(history) = MAX_RETRIES * Len(plan)

\* ------------------------------------------------ aliasing, capabilities ----
\* C23: whatever the evaluated code does (in-place mutation followed by an
\* exception or by a rejected result included), the dataset held by the
\* execution state and the before-snapshot are unchanged by the evaluation,
\* and state.df changes only when an acceptance replaces it.
C23_NoAliasing ==
    [][ /\ (pc = "execute" => df' = df /\ before_df' = before_df)
        /\ (df' # df => pc = "decide" /\ Accepts /\ df' = result.df)
        /\ (pc \in {"execute", "check_status", "decide"} => df = before_df)
      ]_vars

\* C24: the code is evaluated with the bindings df and pd only, over an
\* empty builtins table, and nothing but dataset values comes of it: no
\* evaluation writes a file.
C24_NoCapability ==
    /\ Globals(df).names = {"__builtins__", "pd", "df"}
    /\ Globals(df).builtins = {}
    /\ files = {}

\* -------------------------------------------------------- the empty plan ----
\* C25: a run on a plan of zero steps calls neither the code generator nor
\* the executor, appends nothing to history, and ends in success with the
\* initial dataset returned and persisted.
C25_EmptyPlanNoOp ==
    [][ plan = << >> =>
          /\ pc \in {"while_steps", "persist"}
          /\ pc' = IF pc = "while_steps" THEN "persist" ELSE "done"
          /\ df' = df
          /\ history' = << >>
          /\ attempts_started' = 0
          /\ code' = NoCode /\ feedback' = None
          /\ result' = NoResult
          /\ step_index' = 0
          /\ (pc' = "done" => saved' = df)
      ]_vars

\* C25 witness: the run on an empty plan has ended.
C25_Witness ==
    /\ plan = << >>
    /\ pc = "done"
    /\ saved = df
    /\ history = << >>
    /\ step_index = Len(plan)

\* ------------------------------------------------- the shape of history ----
\* C26: in every reachable state the step ordinals of history are
\* non-decreasing; within a step the attempt numbers are 1, 2, ..., k in
\* order; an 'accepted' record is the last record of its step (so a step has
\* at most one); 'accepted' and 'rejected' records carry metrics, an
\* 'execution_error' record carries the error text and no metrics; every
\* record carries the generated code; and after a successful run the number
\* of 'accepted' records is len(plan).
C26_HistoryWellFormed ==
    /\ \A i \in 1..(Len(history) - 1) : history[i].step <= history[i + 1].step
    /\ \A i \in 1..Len(history) :
          LET r == history[i]
          IN  /\ r.attempt = Cardinality({j \in 1..i : history[j].step = r.step})
              /\ r.status \in {"accepted", "rejected", "execution_error"}
              /\ (r.status = "accepted" =>
                    \A j \in (i + 1)..Len(history) : history[j].step # r.step)
              /\ (r.status \in {"accepted", "rejected"} =>
                    /\ "metrics" \in DOMAIN r
                    /\ DOMAIN r.metrics = DOMAIN evaluate_step(NoFrame, NoFrame))
              /\ (r.status = "execution_error" =>
                    /\ "error" \in DOMAIN r
                    /\ r.error # None
                    /\ "metrics" \notin DOMAIN r)
              /\ "generated_code" \in DOMAIN r
              /\ r.generated_code \in replies
    /\ (pc = "done" => Cardinality(WithStatus("accepted")) = Len(plan))

\* C26 witness: a successful run of a two-step plan whose first step failed
\* in execution once and was accepted on the second attempt.
C26_Witness ==
    /\ pc = "done"
    /\ Len(plan) = 2
    /\ Len(history) >= 3
    /\ history[1].step = 1 /\ history[1].attempt = 1
    /\ history[1].status = "execution_error"
    /\ history[2].step = 1 /\ history[2].attempt = 2
    /\ history[2].status = "accepted"
    /\ history[3].step = 2 /\ history[3].attempt = 1

\* ------------------------------------------------- what the gate looks at ----
\* C27: the gate only limits row loss. A successfully executed candidate with
\* at least as many rows as the input (rows_dropped <= 0, so row_drop_pct
\* <= 0) is always accepted, whatever it does to the rows added, the columns
\* or the missing values; the decision follows from row_drop_pct alone.
C27_GateOnlyRowLoss ==
    [][ pc = "decide" =>
          /\ metrics = evaluate_step(before_df, after_df)
          /\ (metrics.rows_dropped <= 0 =>
                /\ metrics.row_drop_pct <= 0
                /\ pc' = "record_accepted"
                /\ df' = after_df)
          /\ (pc' = "record_accepted" <=>
                metrics.row_drop_pct <= ROW_DROP_LIMIT)
          /\ (pc' = "reject_retry" <=>
                metrics.row_drop_pct > ROW_DROP_LIMIT)
      ]_vars

\* C27 witness: a candidate with more rows and fewer columns than its input
\* has been accepted.
C27_Witness ==
    /\ pc = "record_accepted"
    /\ metrics.rows_dropped < 0
    /\ metrics.columns_after # metrics.columns_before
    /\ df = after_df
    /\ df.rows > before_df.rows

====
